---------------------------- MODULE Spec2Model ----------------------------
(***************************************************************************)
(* A model of conn::CurlConnection and its HTTPS specialisations           *)
(* (src/src/curl_connect.cpp).  One connection object is modelled together *)
(* with the part of the HTTP engine it drives: the options applied to the  *)
(* native handle and the heap of header lists.  Strings are sequences of   *)
(* one-character strings, so that building and decoding wire strings is    *)
(* computed and not assumed.                                               *)
(***************************************************************************)
EXTENDS Integers, Sequences, FiniteSets, TLC

VARIABLES
    variant,    \* which class was constructed: "Base", "Secure", "Get", "Post"
    _handle,    \* CURL* _handle: NULL once closed
    _header,    \* curl_slist* _header: NULL or the address of the owned list
    _options,   \* std::map<CURLoption, std::string> _options (the registry)
    easy,       \* the options applied to the native handle (engine side)
    slists,     \* engine heap: every header list ever allocated
    last,       \* what the most recent call did: its name, exception, result
    setLog,     \* the value given by the latest successful setter, per option
    onlySets,   \* TRUE while only successful setter calls were made
    lastFields, \* the wire string of the latest successful SET_fields
    calls,      \* how many calls were made on the object since construction
    performs,   \* how many times curl_easy_perform ran on the handle
    added,      \* the pairs given to ADD_headers since the list was last empty
    codec,      \* fields handed to SET_fields and what the renderer decodes
    process,    \* the process around the connections: the transport runtime
    principals  \* a user-principals document and what get_streamer_info did

conn == <<_handle, _header, _options, easy, slists>>
vars == <<variant, _handle, _header, _options, easy, slists, last, setLog,
          onlySets, lastFields, calls, performs, added, codec, process,
          principals>>

----------------------------------------------------------------------------
(* Bounds of the model.                                                    *)

\* calls made on one connection object after its construction
MaxCalls == 3
\* header lists allocated over the life of one connection
MaxLists == 2
\* nodes in one header list
MaxNodes == 2
\* pairs in one ADD_headers / SET_fields call
MaxPairs == 2
\* chunks the engine delivers to the write callback in one perform
MaxChunks == 2
\* connection objects with static storage duration outside curl_connect.cpp
MaxStatics == 2
\* connection objects constructed while main runs
MaxLocals == 1

----------------------------------------------------------------------------
(* Values.                                                                 *)

NULL == 0
\* the CURL* returned by curl_easy_init
HandleAddr == 1
\* the address of the function WriteCallback::write
WriteFnAddr == 7
\* the address of execute's local WriteCallback cb
CbAddr == 8
\* header list number i lives at address ListBase + i
ListBase == 10

CURLE_OK == 0

Urls      == { <<"u">> }
Paths     == { <<"p">> }
Dirs      == { <<"d">> }
DEFAULT_ENCODING == <<"g", "z", "i", "p">>
Encodings == { DEFAULT_ENCODING, <<"b", "r">> }
\* the header pairs callers pass: runs of consecutive pairs of HeaderPool
HeaderPool == << << <<"A">>, <<"1">> >>, << <<"B">>, <<"2">> >>,
                 << <<"C">>, <<"3">> >>, << <<"D">>, <<"4">> >> >>
HeaderArgs == { SubSeq(HeaderPool, i, j) : i \in 1..(MaxPairs + 1),
                                           j \in 0..MaxPairs }
Fields    == { << <<"k">>, <<"v">> >> }
\* the response the engine delivers, chunk by chunk
Stream    == << <<"O">>, <<"K">>, <<"!">>, <<"#">> >>
Statuses  == { 200, 404 }
\* the CURLcode values of a perform: 7 is CURLE_COULDNT_CONNECT
Codes     == { CURLE_OK, 7 }
Times     == { 0, 1 }
\* what a read through a dangling buffer pointer may yield
Garbage   == { <<"?">> }

SeqsUpTo(S, n) == UNION { [1..k -> S] : k \in 0..n }

\* a parameter handed to set_option
Long(n) == [t |-> "long", n |-> n, s |-> <<>>]
CStr(s) == [t |-> "cstr", n |-> 0, s |-> s]
Ptr(a)  == [t |-> "ptr",  n |-> a, s |-> <<>>]

EmptyMap == [o \in {} |-> <<>>]
Put(f, k, v) == [x \in (DOMAIN f) \cup {k} |-> IF x = k THEN v ELSE f[x]]
Remove(f, k) == [x \in (DOMAIN f) \ {k} |-> f[x]]

Digit(d) == CASE d = 0 -> "0" [] d = 1 -> "1" [] d = 2 -> "2" [] d = 3 -> "3"
              [] d = 4 -> "4" [] d = 5 -> "5" [] d = 6 -> "6" [] d = 7 -> "7"
              [] d = 8 -> "8" [] d = 9 -> "9"

RECURSIVE to_string(_)
to_string(n) == IF n < 10 THEN << Digit(n) >>
                ELSE to_string(n \div 10) \o << Digit(n % 10) >>

\* to<T>::str: the string form of a parameter, as the registry records it
to_str(param) == IF param.t = "cstr" THEN param.s ELSE to_string(param.n)

----------------------------------------------------------------------------
(* Exceptions: what a call raised.                                         *)

NoExc == [kind |-> "none", option |-> "-", value |-> <<>>, code |-> 0]
CurlException ==
    [kind |-> "CurlException", option |-> "-", value |-> <<>>, code |-> 0]
CurlOptionException(opt, val) ==
    [kind |-> "CurlOptionException", option |-> opt, value |-> val, code |-> 0]
CurlConnectionError(code) ==
    [kind |-> "CurlConnectionError", option |-> "-", value |-> <<>>,
     code |-> code]

\* what execute hands back: make_tuple(c, res, tp) once returned is TRUE
NoRet == [returned |-> FALSE, status |-> 0, body |-> <<>>, tp |-> 0]

\* what the engine did in the call: whether curl_easy_perform ran and the
\* POST body it read (<<>> when none was installed)
NoObs == [performed |-> FALSE, sent |-> <<>>]

Throw(c, e) == [c EXCEPT !.exc = e]
Thrown(c) == c.exc.kind # "none"

----------------------------------------------------------------------------
(* The engine.                                                             *)

\* curl_easy_setopt on a live handle: string options are copied into
\* engine-owned storage, except CURLOPT_POSTFIELDS, which keeps the
\* caller's pointer
curl_easy_setopt(opts, option, param) ==
    IF param.t = "cstr" /\ option = "POSTFIELDS"
    THEN Put(opts, option, [t |-> "ref", n |-> 0, s |-> param.s])
    ELSE Put(opts, option, param)

curl_easy_reset(opts) == EmptyMap

\* curl_slist_append: a new node at the tail; the head is the list itself,
\* or the new node when the list was NULL; NULL on failure, the list
\* as it was
curl_slist_append(heap, list, s, ok) ==
    IF ~ok THEN [heap |-> heap, head |-> NULL]
    ELSE IF list = NULL
    THEN [heap |-> Append(heap, [data |-> <<s>>, frees |-> 0]),
          head |-> ListBase + Len(heap) + 1]
    ELSE [heap |-> [heap EXCEPT ![list - ListBase].data = Append(@, s)],
          head |-> list]

curl_slist_free_all(heap, list) ==
    IF list = NULL THEN heap
    ELSE [heap EXCEPT ![list - ListBase].frees = @ + 1]

----------------------------------------------------------------------------
(* The connection.  Every operation takes the object c and returns it as   *)
(* the call leaves it; c.exc is the exception that left the call.          *)

Self == [_handle |-> _handle, _header |-> _header, _options |-> _options,
         easy |-> easy, slists |-> slists, exc |-> NoExc, ret |-> NoRet,
         obs |-> NoObs]

\* is_closed()
is_closed(c) == c._handle = NULL

\* template set_option(option, param); ok is curl_easy_setopt's verdict
set_option(c, option, param, ok) ==
    IF c._handle = NULL THEN Throw(c, CurlException)
    ELSE IF ~ok THEN Throw(c, CurlOptionException(option, to_str(param)))
    ELSE [c EXCEPT !.easy = curl_easy_setopt(@, option, param),
                   !._options = Put(@, option, to_str(param))]

SET_url(c, url, ok) == set_option(c, "URL", CStr(url), ok)

\* SET_ssl_verify with the host check at level 1
SET_ssl_verify_lax(c, fail) ==
    LET c1 == set_option(c, "SSL_VERIFYPEER", Long(1), fail # 1)
    IN  IF Thrown(c1) THEN c1
        ELSE set_option(c1, "SSL_VERIFYHOST", Long(1), fail # 2)

\* fail: the number of the set_option step the engine rejects, 0 for none
SET_ssl_verify(c, fail) ==
    LET c1 == set_option(c, "SSL_VERIFYPEER", Long(1), fail # 1)
    IN  IF Thrown(c1) THEN c1
        ELSE set_option(c1, "SSL_VERIFYHOST", Long(2), fail # 2)

SET_ssl_verify_using_ca_bundle(c, path, fail) ==
    LET c1 == SET_ssl_verify(c, fail)
    IN  IF Thrown(c1) THEN c1
        ELSE set_option(c1, "CAINFO", CStr(path), fail # 3)

SET_ssl_verify_using_ca_certs(c, dir, fail) ==
    LET c1 == SET_ssl_verify(c, fail)
    IN  IF Thrown(c1) THEN c1
        ELSE set_option(c1, "CAPATH", CStr(dir), fail # 3)

SET_encoding(c, enc, ok) == set_option(c, "ACCEPT_ENCODING", CStr(enc), ok)

SET_keepalive(c, ok) == set_option(c, "TCP_KEEPALIVE", Long(1), ok)

\* h.first + ": " + h.second
HeaderLine(h) == h[1] \o <<":", " ">> \o h[2]

\* the loop of ADD_headers from pair i on; append number fail fails
RECURSIVE AppendHeaders(_, _, _, _)
AppendHeaders(c, headers, i, fail) ==
    IF i > Len(headers) THEN c
    ELSE LET s  == HeaderLine(headers[i])
             r  == curl_slist_append(c.slists, c._header, s, i # fail)
             c1 == [c EXCEPT !._header = r.head, !.slists = r.heap]
         IN  IF c1._header = NULL
             THEN Throw(c1, CurlOptionException("HEADER", s))
             ELSE AppendHeaders(c1, headers, i + 1, fail)

\* ADD_headers that drops the registry's header entry when it fails
ADD_headers_forgets(c, headers, fail) ==
    IF c._handle = NULL THEN Throw(c, CurlException)
    ELSE IF headers = <<>> THEN c
    ELSE LET c1 == AppendHeaders(c, headers, 1, fail)
             c2 == IF Thrown(c1) THEN c1
                   ELSE set_option(c1, "HTTPHEADER", Ptr(c1._header),
                                   fail # Len(headers) + 1)
         IN  IF Thrown(c2)
             THEN [c2 EXCEPT !._options = Remove(@, "HTTPHEADER")]
             ELSE c2

\* ADD_headers without its test of the handle
ADD_headers_unchecked(c, headers, fail) ==
    IF headers = <<>> THEN c
    ELSE LET c1 == AppendHeaders(c, headers, 1, fail)
         IN  IF Thrown(c1) THEN c1
             ELSE set_option(c1, "HTTPHEADER", Ptr(c1._header),
                             fail # Len(headers) + 1)

\* ADD_headers that applies the header-list option for an empty list too
ADD_headers_applies_empty(c, headers, fail) ==
    IF c._handle = NULL THEN Throw(c, CurlException)
    ELSE LET c1 == AppendHeaders(c, headers, 1, fail)
         IN  IF Thrown(c1) THEN c1
             ELSE set_option(c1, "HTTPHEADER", Ptr(c1._header),
                             fail # Len(headers) + 1)

\* fail: the append that fails, Len(headers) + 1 for the final set_option
ADD_headers(c, headers, fail) ==
    IF c._handle = NULL THEN Throw(c, CurlException)
    ELSE IF headers = <<>> THEN c
    ELSE LET c1 == AppendHeaders(c, headers, 1, fail)
         IN  IF Thrown(c1) THEN c1
             ELSE set_option(c1, "HTTPHEADER", Ptr(c1._header),
                             fail # Len(headers) + 1)

RESET_headers(c) ==
    [c EXCEPT !.slists = curl_slist_free_all(@, c._header),
              !._header = NULL,
              !._options = Remove(@, "HTTPHEADER")]

RESET_options(c) ==
    LET c1 == RESET_headers(c)
        c2 == IF c1._handle # NULL
              THEN [c1 EXCEPT !.easy = curl_easy_reset(@)]
              ELSE c1
    IN  [c2 EXCEPT !._options = EmptyMap]

\* close that frees the header list and keeps the pointer to it
close_keeps_header(c) ==
    LET c1 == IF c._header # NULL
              THEN [c EXCEPT !.slists = curl_slist_free_all(@, c._header)]
              ELSE c
        c2 == IF c1._handle # NULL
              THEN [c1 EXCEPT !.easy = EmptyMap, !._handle = NULL]
              ELSE c1
    IN  [c2 EXCEPT !._options = EmptyMap]

close(c) ==
    LET c1 == IF c._header # NULL
              THEN [c EXCEPT !.slists = curl_slist_free_all(@, c._header),
                             !._header = NULL]
              ELSE c
        c2 == IF c1._handle # NULL
              THEN [c1 EXCEPT !.easy = EmptyMap, !._handle = NULL]
              ELSE c1
    IN  [c2 EXCEPT !._options = EmptyMap]

\* ss << f.first << "=" << f.second << "&" for each field, in order
RECURSIVE FieldsStream(_)
FieldsStream(fields) ==
    IF fields = <<>> THEN <<>>
    ELSE fields[1][1] \o <<"=">> \o fields[1][2] \o <<"&">>
         \o FieldsStream(Tail(fields))

\* the stream as it is, its last character kept
FieldsWire_keeps_last(fields) == FieldsStream(fields)

\* string s(ss.str()) with the last character erased when s is not empty
FieldsWire(fields) ==
    LET s == FieldsStream(fields)
    IN  IF s # <<>> THEN SubSeq(s, 1, Len(s) - 1) ELSE s

\* SET_fields through CURLOPT_POSTFIELDS, which does not copy the string
SET_fields_no_copy(c, fields, ok) ==
    IF is_closed(c) THEN Throw(c, CurlException)
    ELSE IF fields # <<>>
    THEN set_option(c, "POSTFIELDS", CStr(FieldsWire(fields)), ok)
    ELSE c

SET_fields(c, fields, ok) ==
    IF is_closed(c) THEN Throw(c, CurlException)
    ELSE IF fields # <<>>
    THEN set_option(c, "COPYPOSTFIELDS", CStr(FieldsWire(fields)), ok)
    ELSE c

\* a write that replaces what the sink holds
WriteCallback_write_over(buf, input) == input

\* WriteCallback::write: buf.sputn(input, sz*n)
WriteCallback_write(buf, input) == buf \o input

\* the write function called once per delivered chunk, on the sink cb
RECURSIVE Deliver(_, _)
Deliver(buf, chunks) ==
    IF chunks = <<>> THEN buf
    ELSE Deliver(WriteCallback_write(buf, chunks[1]), Tail(chunks))

\* the POST body curl_easy_perform reads from the handle: the engine's own
\* copy, or whatever a pointer to a buffer that is gone yields
BodyRead(opts, garbage) ==
    IF "COPYPOSTFIELDS" \in DOMAIN opts THEN << opts["COPYPOSTFIELDS"].s >>
    ELSE IF "POSTFIELDS" \in DOMAIN opts THEN << garbage >>
    ELSE <<>>

\* execute that takes a status outside 200..299 for a failure
execute_strict(c, in) ==
    IF c._handle = NULL THEN Throw(c, CurlException)
    ELSE
    LET c1 == set_option(c, "WRITEFUNCTION", Ptr(WriteFnAddr), in.okFn)
    IN  IF Thrown(c1) THEN c1 ELSE
    LET c2 == set_option(c1, "WRITEDATA", Ptr(CbAddr), in.okData)
    IN  IF Thrown(c2) THEN c2 ELSE
    LET cb == Deliver(<<>>, in.chunks)
        c3 == [c2 EXCEPT !.obs = [performed |-> TRUE,
                                  sent |-> BodyRead(c2.easy, in.garbage)]]
    IN  IF in.ccode # CURLE_OK \/ in.status < 200 \/ in.status > 299
        THEN Throw(c3, CurlConnectionError(in.ccode))
        ELSE [c3 EXCEPT !.ret = [returned |-> TRUE, status |-> in.status,
                                 body |-> cb, tp |-> in.tp]]

\* in: what the environment decides during the call: okFn and okData are
\* curl_easy_setopt's verdicts, ccode is curl_easy_perform's, chunks are
\* delivered to the write callback, status is CURLINFO_RESPONSE_CODE, tp
\* is clock_ty::now() after the perform (t0 is the clock at entry)
execute(c, in) ==
    IF c._handle = NULL THEN Throw(c, CurlException)
    ELSE
    LET c1 == set_option(c, "WRITEFUNCTION", Ptr(WriteFnAddr), in.okFn)
    IN  IF Thrown(c1) THEN c1 ELSE
    LET c2 == set_option(c1, "WRITEDATA", Ptr(CbAddr), in.okData)
    IN  IF Thrown(c2) THEN c2 ELSE
    LET cb == Deliver(<<>>, in.chunks)
        c3 == [c2 EXCEPT !.obs = [performed |-> TRUE,
                                  sent |-> BodyRead(c2.easy, in.garbage)]]
    IN  IF in.ccode # CURLE_OK
        THEN Throw(c3, CurlConnectionError(in.ccode))
        ELSE [c3 EXCEPT !.ret = [returned |-> TRUE, status |-> in.status,
                                 body |-> cb, tp |-> in.tp]]

----------------------------------------------------------------------------
(* The renderer's decoders.                                                *)

\* std::find / find_first_of from position b on: the position of the first
\* ch, Len(s) + 1 (the end iterator) when there is none
RECURSIVE find(_, _, _)
find(s, b, ch) ==
    IF b > Len(s) THEN Len(s) + 1
    ELSE IF s[b] = ch THEN b
    ELSE find(s, b + 1, ch)

\* the loop of fields_str_to_map with its iterator b at position b
RECURSIVE fields_str_loop(_, _, _)
fields_str_loop(fstr, b, res) ==
    LET e    == find(fstr, b, "&")
        s    == SubSeq(fstr, b, e - 1)
        sep  == find(s, 1, "=")
        res1 == IF s # <<>> /\ sep # Len(s) + 1
                THEN Append(res, << SubSeq(s, 1, sep - 1),
                                    SubSeq(s, sep + 1, Len(s)) >>)
                ELSE res
    IN  IF e = Len(fstr) + 1 THEN res1
        ELSE fields_str_loop(fstr, e + 1, res1)

fields_str_to_map(fstr) == fields_str_loop(fstr, 1, <<>>)

\* the nodes of the list at address hlist, NULL being the empty list
slist_nodes(heap, hlist) ==
    IF hlist = NULL THEN <<>> ELSE heap[hlist - ListBase].data

\* one turn of header_list_to_map's loop: the pair read from the line s.
\* A line without ':' makes i the end iterator and string v(i+1, end) a
\* range that starts past the end: junk is what that construction yields
header_line_to_pair(s, junk) ==
    LET i == find(s, 1, ":")
    IN  IF i = Len(s) + 1 THEN << s, junk >>
        ELSE << SubSeq(s, 1, i - 1), SubSeq(s, i + 1, Len(s)) >>

\* header_list_to_map on the nodes of a list
header_list_to_map(nodes, junk) ==
    [n \in DOMAIN nodes |-> header_line_to_pair(nodes[n], junk)]

----------------------------------------------------------------------------
(* Construction.                                                           *)

New == [_handle |-> HandleAddr, _header |-> NULL, _options |-> EmptyMap,
        easy |-> EmptyMap, slists |-> <<>>, exc |-> NoExc, ret |-> NoRet,
        obs |-> NoObs]

\* CurlConnection(): seed is <<>> for the bare form, <<url>> for the
\* pre-seeded form CurlConnection(url)
CurlConnection(seed) ==
    LET c == set_option(New, "NOSIGNAL", Long(1), TRUE)
    IN  IF seed = <<>> THEN c ELSE SET_url(c, seed[1], TRUE)

HTTPSConnection(seed) == SET_ssl_verify(CurlConnection(seed), 0)

\* the Get constructor without its SET_keepalive
HTTPSGetConnection_no_keepalive(seed) ==
    LET c == set_option(HTTPSConnection(seed), "HTTPGET", Long(1), TRUE)
    IN  SET_encoding(c, DEFAULT_ENCODING, TRUE)

HTTPSGetConnection(seed) ==
    LET c == set_option(HTTPSConnection(seed), "HTTPGET", Long(1), TRUE)
    IN  SET_keepalive(SET_encoding(c, DEFAULT_ENCODING, TRUE), TRUE)

HTTPSPostConnection(seed) ==
    LET c == set_option(HTTPSConnection(seed), "POST", Long(1), TRUE)
    IN  SET_keepalive(SET_encoding(c, DEFAULT_ENCODING, TRUE), TRUE)

Variants == {"Base", "Secure", "Get", "Post"}

Construct(v, seed) ==
    CASE v = "Base"   -> CurlConnection(seed)
      [] v = "Secure" -> HTTPSConnection(seed)
      [] v = "Get"    -> HTTPSGetConnection(seed)
      [] v = "Post"   -> HTTPSPostConnection(seed)

----------------------------------------------------------------------------
(* The state machine: one action per public operation.                     *)

\* set: a SET_fields installed wire; reset: RESET_options was called since;
\* age: calls made since that SET_fields
NoFields == [set |-> FALSE, wire |-> <<>>, reset |-> FALSE, age |-> 0]

Aged == IF lastFields.set THEN [lastFields EXCEPT !.age = @ + 1]
        ELSE lastFields

\* the environment's part in a call that involves none: every
\* curl_easy_setopt accepted, the perform CURLE_OK with an empty response
\* no pair added, and no ADD_headers failed, since the header list was
\* last empty: at construction, after RESET_headers, RESET_options, close
NoneAdded == [ok |-> TRUE, pairs |-> <<>>]

\* the variables of the other specifications, at rest
NoCodec == [stage |-> "idle"]
NoProcess == [stage |-> "idle"]
NoPrincipals == [stage |-> "idle"]

NoInput == [okFn |-> TRUE, okData |-> TRUE, ccode |-> CURLE_OK,
            chunks |-> <<>>, status |-> 200, t0 |-> 0, tp |-> 0,
            garbage |-> <<"?">>]

\* one connection of class v, as its constructor leaves it
Constructed(v, seed) ==
    LET c == Construct(v, seed)
    IN  /\ variant = v
        /\ _handle = c._handle
        /\ _header = c._header
        /\ _options = c._options
        /\ easy = c.easy
        /\ slists = c.slists
        /\ last = [op |-> "construct", closed |-> FALSE, exc |-> c.exc,
                   ret |-> c.ret, obs |-> c.obs, in |-> NoInput,
                   empty |-> FALSE]
        /\ setLog = c._options
        /\ onlySets = TRUE
        /\ lastFields = NoFields
        /\ calls = 0
        /\ performs = 0
        /\ added = NoneAdded

Init ==
    \E v \in Variants, seed \in {<<>>} \cup { <<u>> : u \in Urls } :
        /\ Constructed(v, seed)
        /\ codec = NoCodec
        /\ process = NoProcess
        /\ principals = NoPrincipals

\* the object as the call op left it; empty: the call was given an empty
\* list of pairs
CommitArg(op, r, in, empty) ==
    /\ calls < MaxCalls
    /\ calls' = calls + 1
    /\ _handle' = r._handle
    /\ _header' = r._header
    /\ _options' = r._options
    /\ easy' = r.easy
    /\ slists' = r.slists
    /\ last' = [op |-> op, closed |-> (_handle = NULL), exc |-> r.exc,
                ret |-> r.ret, obs |-> r.obs,
                in |-> IF r.obs.performed THEN in ELSE NoInput,
                empty |-> empty]
    /\ performs' = IF r.obs.performed THEN performs + 1 ELSE performs
    /\ variant' = variant
    /\ UNCHANGED <<codec, process, principals>>

Commit(op, r, in) == CommitArg(op, r, in, FALSE)

\* a setter call that gave the values upd (option -> string form)
LogSet(r, upd) ==
    IF onlySets /\ ~Thrown(r)
    THEN /\ onlySets' = TRUE
         /\ setLog' = [o \in (DOMAIN setLog) \cup (DOMAIN upd) |->
                          IF o \in DOMAIN upd THEN upd[o] ELSE setLog[o]]
    ELSE /\ onlySets' = FALSE
         /\ setLog' = EmptyMap

LogOther == onlySets' = FALSE /\ setLog' = EmptyMap

One(o, s) == [x \in {o} |-> s]
SslUpd == [x \in {"SSL_VERIFYPEER", "SSL_VERIFYHOST"} |->
              IF x = "SSL_VERIFYPEER" THEN <<"1">> ELSE <<"2">>]

Call_SET_url ==
    \E url \in Urls, ok \in BOOLEAN :
        LET r == SET_url(Self, url, ok)
        IN  /\ Commit("SET_url", r, NoInput)
            /\ LogSet(r, One("URL", url))
            /\ lastFields' = Aged
            /\ added' = added

Call_SET_ssl_verify ==
    \E fail \in 0..2 :
        LET r == SET_ssl_verify(Self, fail)
        IN  /\ Commit("SET_ssl_verify", r, NoInput)
            /\ LogSet(r, SslUpd)
            /\ lastFields' = Aged
            /\ added' = added

Call_SET_ssl_verify_using_ca_bundle ==
    \E path \in Paths, fail \in 0..3 :
        LET r == SET_ssl_verify_using_ca_bundle(Self, path, fail)
        IN  /\ Commit("SET_ssl_verify_using_ca_bundle", r, NoInput)
            /\ LogSet(r, Put(SslUpd, "CAINFO", path))
            /\ lastFields' = Aged
            /\ added' = added

Call_SET_ssl_verify_using_ca_certs ==
    \E dir \in Dirs, fail \in 0..3 :
        LET r == SET_ssl_verify_using_ca_certs(Self, dir, fail)
        IN  /\ Commit("SET_ssl_verify_using_ca_certs", r, NoInput)
            /\ LogSet(r, Put(SslUpd, "CAPATH", dir))
            /\ lastFields' = Aged
            /\ added' = added

Call_SET_encoding ==
    \E enc \in Encodings, ok \in BOOLEAN :
        LET r == SET_encoding(Self, enc, ok)
        IN  /\ Commit("SET_encoding", r, NoInput)
            /\ LogSet(r, One("ACCEPT_ENCODING", enc))
            /\ lastFields' = Aged
            /\ added' = added

Call_SET_keepalive ==
    \E ok \in BOOLEAN :
        LET r == SET_keepalive(Self, ok)
        IN  /\ Commit("SET_keepalive", r, NoInput)
            /\ LogSet(r, One("TCP_KEEPALIVE", <<"1">>))
            /\ lastFields' = Aged
            /\ added' = added

\* the bounds on the heap: a call that would allocate a list or a node
\* beyond them is not made
HeapRoom(headers) ==
    \/ _handle = NULL
    \/ headers = <<>>
    \/ /\ _header = NULL
       /\ Len(slists) < MaxLists
       /\ Len(headers) <= MaxNodes
    \/ /\ _header # NULL
       /\ Len(slists[_header - ListBase].data) + Len(headers) <= MaxNodes

Call_ADD_headers ==
    \E headers \in HeaderArgs :
      \E fail \in 0..(Len(headers) + 1) :
        /\ HeapRoom(headers)
        /\ LET r == ADD_headers(Self, headers, fail)
           IN  /\ CommitArg("ADD_headers", r, NoInput, headers = <<>>)
               /\ LogSet(r, IF headers = <<>> THEN EmptyMap
                            ELSE One("HTTPHEADER", to_string(r._header)))
               /\ lastFields' = Aged
               /\ added' = IF Thrown(r) THEN [ok |-> FALSE, pairs |-> <<>>]
                            ELSE [added EXCEPT !.pairs = @ \o headers]

Call_SET_fields ==
    /\ variant = "Post"
    /\ \E fields \in SeqsUpTo(Fields, MaxPairs), ok \in BOOLEAN :
        LET r == SET_fields(Self, fields, ok)
        IN  /\ CommitArg("SET_fields", r, NoInput, fields = <<>>)
            /\ added' = added
            /\ LogSet(r, IF fields = <<>> THEN EmptyMap
                         ELSE One("COPYPOSTFIELDS", FieldsWire(fields)))
            /\ lastFields' = IF fields # <<>> /\ ~Thrown(r)
                             THEN [set |-> TRUE, wire |-> FieldsWire(fields),
                                   reset |-> FALSE, age |-> 0]
                             ELSE Aged

Call_RESET_headers ==
    LET r == RESET_headers(Self)
    IN  /\ Commit("RESET_headers", r, NoInput)
        /\ LogOther
        /\ lastFields' = Aged
        /\ added' = NoneAdded

Call_RESET_options ==
    LET r == RESET_options(Self)
    IN  /\ Commit("RESET_options", r, NoInput)
        /\ LogOther
        /\ lastFields' = [Aged EXCEPT !.reset = lastFields.set]
        /\ added' = NoneAdded

\* what the environment may decide during one execute: a rejected
\* set_option, a perform that fails after it delivered one chunk, a
\* response of up to MaxChunks chunks, or an empty response with any status
\* at any time
ExecuteInputs ==
    { [NoInput EXCEPT !.okFn = FALSE], [NoInput EXCEPT !.okData = FALSE] }
    \cup { [NoInput EXCEPT !.ccode = code, !.chunks = SubSeq(Stream, 1, 1),
                           !.garbage = g] :
             code \in Codes \ {CURLE_OK}, g \in Garbage }
    \cup { [NoInput EXCEPT !.chunks = SubSeq(Stream, 1, k), !.garbage = g] :
             k \in 0..MaxChunks, g \in Garbage }
    \cup { [NoInput EXCEPT !.status = status, !.t0 = t0, !.tp = tp,
                           !.garbage = g] :
             status \in Statuses, t0 \in Times, tp \in Times,
             g \in Garbage }

Call_execute ==
    \E in \in ExecuteInputs :
        /\ in.tp >= in.t0
        /\ LET r == execute(Self, in)
           IN  /\ Commit("execute", r, in)
               /\ LogOther
               /\ lastFields' = Aged
               /\ added' = added

\* close(), also what the destructor runs
Call_close ==
    LET r == close(Self)
    IN  /\ Commit("close", r, NoInput)
        /\ LogOther
        /\ lastFields' = Aged
        /\ added' = NoneAdded

Next ==
    \/ Call_SET_url
    \/ Call_SET_ssl_verify
    \/ Call_SET_ssl_verify_using_ca_bundle
    \/ Call_SET_ssl_verify_using_ca_certs
    \/ Call_SET_encoding
    \/ Call_SET_keepalive
    \/ Call_ADD_headers
    \/ Call_SET_fields
    \/ Call_RESET_headers
    \/ Call_RESET_options
    \/ Call_execute
    \/ Call_close

Spec == Init /\ [][Next]_vars

----------------------------------------------------------------------------
(* SET_fields and the renderer's decoding of what it installed, on inputs  *)
(* that may hold the separators themselves.                                *)

FieldKeys == { <<"a">>, <<"b">>, <<>>, <<"a", "=">>, <<"&">> }
FieldVals == { <<"1">>, <<>>, <<"=">>, <<"&">>, <<"1", "&">> }
FieldLists ==
    SeqsUpTo({ <<k, v>> : k \in FieldKeys, v \in FieldVals }, MaxPairs)
        \ { <<>> }

InitFields ==
    \E fields \in FieldLists :
        /\ Constructed("Post", <<>>)
        /\ codec = [stage |-> "given", fields |-> fields, decoded |-> <<>>]
        /\ process = NoProcess
        /\ principals = NoPrincipals

Fields_SET_fields ==
    /\ codec.stage = "given"
    /\ \E ok \in BOOLEAN :
        LET r == SET_fields(Self, codec.fields, ok)
        IN  /\ _options' = r._options
            /\ easy' = r.easy
            /\ codec' = [codec EXCEPT
                            !.stage = IF Thrown(r) THEN "failed" ELSE "set"]
    /\ UNCHANGED <<variant, _handle, _header, slists, last, setLog, onlySets,
                   lastFields, calls, performs, added, process, principals>>

\* operator<< at the registry's CURLOPT_COPYPOSTFIELDS entry
Fields_render ==
    /\ codec.stage = "set"
    /\ codec' = [codec EXCEPT
                    !.stage = "decoded",
                    !.decoded = fields_str_to_map(_options["COPYPOSTFIELDS"])]
    /\ UNCHANGED <<variant, _handle, _header, _options, easy, slists, last,
                   setLog, onlySets, lastFields, calls, performs, added,
                   process, principals>>

NextFields == Fields_SET_fields \/ Fields_render

SpecFields == InitFields /\ [][NextFields]_vars

----------------------------------------------------------------------------
(* The process around the connections.  CurlConnection::_init is an object *)
(* with static storage duration: its constructor initializes the transport *)
(* runtime and its destructor tears it down.  The dynamic initialization   *)
(* of static objects of different translation units is not ordered, and    *)
(* static objects are destroyed in the reverse order of their              *)
(* construction.                                                           *)

\* the name of _init in the order of construction; connections are 1, 2, ..
InitObject == 0

NoEvent == [kind |-> "none", who |-> 0, runtime |-> "-"]

\* what a connection did, and the state of the runtime when it did it
Event(kind, who) ==
    [kind |-> kind, who |-> who, runtime |-> process.runtime]

InitRuntime ==
    /\ \E n \in 0..MaxStatics :
         process = [stage |-> "static_init", runtime |-> "uninitialized",
                    inits |-> 0, cleanups |-> 0, order |-> <<>>,
                    statics |-> n,
                    conns |-> [i \in 1..(n + MaxLocals) |-> "unborn"],
                    event |-> NoEvent]
    /\ Constructed("Base", <<>>)
    /\ codec = NoCodec
    /\ principals = NoPrincipals

RuntimeFrame ==
    UNCHANGED <<variant, _handle, _header, _options, easy, slists, last,
                setLog, onlySets, lastFields, calls, performs, added, codec,
                principals>>

Constructed_init == \E k \in DOMAIN process.order : process.order[k] = InitObject

\* Init::Init(): curl_global_init
Static_init_runtime ==
    /\ process.stage = "static_init"
    /\ ~Constructed_init
    /\ process' = [process EXCEPT !.runtime = "initialized",
                                  !.inits = @ + 1,
                                  !.order = Append(@, InitObject),
                                  !.event = NoEvent]
    /\ RuntimeFrame

\* the constructor of a static connection: curl_easy_init
Static_construct ==
    /\ process.stage = "static_init"
    /\ \E i \in 1..process.statics :
         /\ process.conns[i] = "unborn"
         /\ process' = [process EXCEPT !.conns[i] = "open",
                                       !.order = Append(@, i),
                                       !.event = Event("acquire", i)]
    /\ RuntimeFrame

Enter_main ==
    /\ process.stage = "static_init"
    /\ Constructed_init
    /\ \A i \in 1..process.statics : process.conns[i] # "unborn"
    /\ process' = [process EXCEPT !.stage = "main", !.event = NoEvent]
    /\ RuntimeFrame

\* the constructor of a connection created while main runs
Main_construct ==
    /\ process.stage = "main"
    /\ \E i \in (process.statics + 1)..(process.statics + MaxLocals) :
         /\ process.conns[i] = "unborn"
         /\ process' = [process EXCEPT !.conns[i] = "open",
                                       !.event = Event("acquire", i)]
    /\ RuntimeFrame

\* execute on an open connection: curl_easy_perform
Process_execute ==
    /\ process.stage \in {"static_init", "main"}
    /\ \E i \in DOMAIN process.conns :
         /\ process.conns[i] = "open"
         /\ process' = [process EXCEPT !.event = Event("perform", i)]
    /\ RuntimeFrame

\* the destructor of a connection created while main runs, or close()
Main_destroy ==
    /\ process.stage = "main"
    /\ \E i \in DOMAIN process.conns :
         /\ process.conns[i] = "open"
         /\ process' = [process EXCEPT !.conns[i] = "closed",
                                       !.event = Event("release", i)]
    /\ RuntimeFrame

Exit_main ==
    /\ process.stage = "main"
    /\ process' = [process EXCEPT !.stage = "static_destruction",
                                  !.event = NoEvent]
    /\ RuntimeFrame

\* the destructor of the static object constructed last among those left:
\* Init::~Init() is curl_global_cleanup, ~CurlConnection() is close()
Static_destroy ==
    /\ process.stage = "static_destruction"
    /\ process.order # <<>>
    /\ LET o    == process.order[Len(process.order)]
           rest == SubSeq(process.order, 1, Len(process.order) - 1)
       IN  process' =
             IF o = InitObject
             THEN [process EXCEPT !.runtime = "torn_down",
                                  !.cleanups = @ + 1,
                                  !.order = rest,
                                  !.event = NoEvent]
             ELSE [process EXCEPT !.conns[o] = "closed",
                                  !.order = rest,
                                  !.event = IF process.conns[o] = "open"
                                            THEN Event("release", o)
                                            ELSE NoEvent]
    /\ RuntimeFrame

NextRuntime ==
    \/ Static_init_runtime
    \/ Static_construct
    \/ Enter_main
    \/ Main_construct
    \/ Process_execute
    \/ Main_destroy
    \/ Exit_main
    \/ Static_destroy

SpecRuntime == InitRuntime /\ [][NextRuntime]_vars

----------------------------------------------------------------------------
(* get_streamer_info (src/src/streaming/streaming_info.cpp): from the user *)
(* principals document to streamer credentials.  A JSON value is a record: *)
(* t is its type, s the characters of a string, a the items of an array,   *)
(* o the members of an object.                                             *)

JNull      == [t |-> "null",   s |-> <<>>, a |-> <<>>, o |-> EmptyMap]
JStr(s)    == [t |-> "string", s |-> s,    a |-> <<>>, o |-> EmptyMap]
JArr(a)    == [t |-> "array",  s |-> <<>>, a |-> a,    o |-> EmptyMap]
JObj(o)    == [t |-> "object", s |-> <<>>, a |-> <<>>, o |-> o]

\* what a call of the JSON library gives: exc is "none" or the exception
Got(v)     == [exc |-> "none", v |-> v]
Raised(e)  == [exc |-> e, v |-> JNull]

\* the exception classes derived from json::exception
JsonExceptions == {"json::type_error", "json::out_of_range"}

\* j.find(key): found is FALSE for the end iterator
json_find(j, key) ==
    IF j.t = "object" /\ key \in DOMAIN j.o
    THEN [found |-> TRUE, v |-> j.o[key]]
    ELSE [found |-> FALSE, v |-> JNull]

\* j[idx] on a value that is not const: null becomes an array, an array is
\* filled with nulls up to idx, any other type raises type_error
json_index(j, idx) ==
    IF j.t = "null" THEN Got(JNull)
    ELSE IF j.t = "array"
    THEN IF idx < Len(j.a) THEN Got(j.a[idx + 1]) ELSE Got(JNull)
    ELSE Raised("json::type_error")

\* j.at(key)
json_at(j, key) ==
    IF j.t # "object" THEN Raised("json::type_error")
    ELSE IF key \notin DOMAIN j.o THEN Raised("json::out_of_range")
    ELSE Got(j.o[key])

\* the conversion of a JSON value to std::string
json_to_string(v) ==
    IF v.t = "string" THEN Got(v) ELSE Raised("json::type_error")

Digits == {"0", "1", "2", "3", "4", "5", "6", "7", "8", "9"}

DigitVal(ch) == CHOOSE d \in 0..9 : Digit(d) = ch

\* the digits at the front of s, as a number
RECURSIVE stoi_digits(_, _)
stoi_digits(s, n) ==
    IF s = <<>> \/ s[1] \notin Digits THEN n
    ELSE stoi_digits(Tail(s), n * 10 + DigitVal(s[1]))

\* std::stoi(s): white space is skipped, then a sign may come, then the
\* digits up to the first character that is none; std::invalid_argument
\* when no digit is found
RECURSIVE stoi(_)
stoi(s) ==
    IF s # <<>> /\ s[1] = " " THEN stoi(Tail(s))
    ELSE LET signed == s # <<>> /\ s[1] \in {"+", "-"}
             d      == IF signed THEN Tail(s) ELSE s
             n      == stoi_digits(d, 0)
         IN  IF d = <<>> \/ d[1] \notin Digits
             THEN [exc |-> "std::invalid_argument", n |-> 0]
             ELSE [exc |-> "none",
                   n |-> IF signed /\ s[1] = "-" THEN 0 - n ELSE n]

\* the fields of the tm that timestamp_to_ms fills, in the order it fills
\* them: the offset of each in ts and its length
TmFields == << <<0, 4>>, <<5, 2>>, <<8, 2>>, <<11, 2>>, <<14, 2>>, <<17, 2>> >>

\* the stoi calls of timestamp_to_ms from field n on
RECURSIVE tm_from(_, _, _)
tm_from(ts, n, tm) ==
    IF n > Len(TmFields) THEN [exc |-> "none", tm |-> tm]
    ELSE LET f == TmFields[n]
             r == stoi(SubSeq(ts, f[1] + 1, f[1] + f[2]))
         IN  IF r.exc # "none" THEN [exc |-> r.exc, tm |-> <<>>]
             ELSE tm_from(ts, n + 1, Append(tm, r.n))

\* timestamp_to_ms(ts); the result is given as the tm handed to timegm,
\* with tm_year and tm_mon as stored
timestamp_to_ms(ts) ==
    IF Len(ts) # 24 \/ SubSeq(ts, 21, 24) # <<"0", "0", "0", "0">>
    THEN [exc |-> "APIException", tm |-> <<>>]
    ELSE LET r == tm_from(ts, 1, <<>>)
         IN  IF r.exc # "none" THEN r
             ELSE [exc |-> "none",
                   tm |-> [r.tm EXCEPT ![1] = @ - 1900, ![2] = @ - 1]]

\* the members the try block reads, in order, and the value each is read
\* from
Reads == << <<"acct", "accountId">>, <<"sinfo", "token">>,
            <<"acct", "company">>, <<"acct", "segment">>,
            <<"acct", "accountCdDomainId">>, <<"sinfo", "userGroup">>,
            <<"sinfo", "accessLevel">>, <<"sinfo", "tokenTimestamp">>,
            <<"sinfo", "appId">>, <<"sinfo", "acl">>,
            <<"sinfo", "streamerSocketUrl">>, <<"j", "primaryAccountId">> >>

\* the try block of get_streamer_info from its read number n on
RECURSIVE try_block(_, _, _, _, _)
try_block(j, acct, sinfo, n, tm) ==
    IF n > Len(Reads) THEN [exc |-> "none", tm |-> tm]
    ELSE LET from == CASE Reads[n][1] = "acct"  -> acct
                       [] Reads[n][1] = "sinfo" -> sinfo
                       [] OTHER                 -> j
             m    == json_at(from, Reads[n][2])
             str  == IF m.exc # "none" THEN m ELSE json_to_string(m.v)
         IN  IF str.exc # "none" THEN [exc |-> str.exc, tm |-> <<>>]
             ELSE IF Reads[n][2] = "tokenTimestamp"
             THEN LET r == timestamp_to_ms(str.v.s)
                  IN  IF r.exc # "none" THEN r
                      ELSE try_block(j, acct, sinfo, n + 1, r.tm)
             ELSE try_block(j, acct, sinfo, n + 1, tm)

\* get_streamer_info on the document j that
\* get_user_principals_for_streaming returned
get_streamer_info(j) ==
    LET i_acct  == json_find(j, "accounts")
        i_sinfo == json_find(j, "streamerInfo")
    IN  IF ~i_acct.found THEN [exc |-> "APIException", tm |-> <<>>]
        ELSE IF ~i_sinfo.found THEN [exc |-> "APIException", tm |-> <<>>]
        ELSE LET acct == json_index(i_acct.v, 0)
             IN  IF acct.exc # "none" THEN [exc |-> acct.exc, tm |-> <<>>]
                 ELSE LET r == try_block(j, acct.v, i_sinfo.v, 1, <<>>)
                      IN  IF r.exc \in JsonExceptions
                          THEN [exc |-> "APIException", tm |-> <<>>]
                          ELSE r

\* the documents handed to get_streamer_info
AcctKeys  == {"accountId", "company", "segment", "accountCdDomainId"}
SInfoKeys == {"token", "userGroup", "accessLevel", "tokenTimestamp", "appId",
              "acl", "streamerSocketUrl"}

\* YYYY-MM-DDTHH:MM:SS and the offset
Stamp(year, sep, sec, offset) ==
    year \o <<sep, "0", "6", sep, "1", "2", "T", "0", "2", ":", "1", "8",
               ":">> \o sec \o offset

Timestamps ==
    { Stamp(<<"2", "0", "1", "8">>, "-", <<"2", "3">>,
            <<"+", "0", "0", "0", "0">>),
      Stamp(<<"2", "0", "1", "8">>, "-", <<"2", "3">>,
            <<"+", "0", "1", "0", "0">>),
      Stamp(<<"2", "0", "1", "8">>, "-", <<"2", "3">>, <<"Z">>),
      Stamp(<<"a", "b", "c", "d">>, "-", <<"2", "3">>,
            <<"+", "0", "0", "0", "0">>),
      Stamp(<<"2", "0", "1", "8">>, "-", <<"x", "x">>,
            <<"+", "0", "0", "0", "0">>),
      Stamp(<<"2", "0", "1", "8">>, "-", <<"2", "x">>,
            <<"+", "0", "0", "0", "0">>),
      Stamp(<<"2", "0", "1", "8">>, "/", <<"2", "3">>,
            <<"+", "0", "0", "0", "0">>) }

FullAcct == [k \in AcctKeys |-> JStr(<<"x">>)]

Accts ==
    { JObj(FullAcct) }
    \cup { JObj(Remove(FullAcct, k)) : k \in AcctKeys }
    \cup { JObj(Put(FullAcct, k, JArr(<<>>))) : k \in AcctKeys }

SInfoWith(ts) ==
    [k \in SInfoKeys |-> IF k = "tokenTimestamp" THEN ts ELSE JStr(<<"x">>)]

SInfos ==
    { JObj(SInfoWith(JStr(ts))) : ts \in Timestamps }
    \cup { JObj(Remove(SInfoWith(JStr(ts)), k)) :
              k \in SInfoKeys, ts \in Timestamps }
    \cup { JObj(Put(SInfoWith(JStr(ts)), k, JArr(<<>>))) :
              k \in SInfoKeys, ts \in Timestamps }

\* a member that the document does not have
Absent == [t |-> "absent", s |-> <<>>, a |-> <<>>, o |-> EmptyMap]

AccountsValues ==
    { Absent, JNull, JStr(<<"x">>), JObj(FullAcct), JArr(<<>>),
      JArr(<< JStr(<<"x">>) >>) }
    \cup { JArr(<<acct>>) : acct \in Accts }

StreamerInfoValues == { Absent, JStr(<<"x">>) } \cup SInfos

PrimaryValues == { Absent, JStr(<<"x">>), JArr(<<>>) }

Document(accounts, sinfo, primary) ==
    LET members == [k \in {"accounts", "streamerInfo", "primaryAccountId"}
                      |-> CASE k = "accounts"     -> accounts
                            [] k = "streamerInfo" -> sinfo
                            [] OTHER              -> primary]
    IN  JObj([k \in { m \in DOMAIN members : members[m] # Absent }
                 |-> members[k]])

Documents ==
    { JArr(<<>>) }
    \cup { Document(a, si, p) : a \in AccountsValues,
                                si \in StreamerInfoValues,
                                p \in PrimaryValues }

InitStreamer ==
    /\ \E j \in Documents :
         principals = [stage |-> "given", j |-> j, exc |-> "none",
                       tm |-> <<>>]
    /\ Constructed("Base", <<>>)
    /\ codec = NoCodec
    /\ process = NoProcess

Call_get_streamer_info ==
    /\ principals.stage = "given"
    /\ LET r == get_streamer_info(principals.j)
       IN  principals' = [principals EXCEPT !.stage = "done",
                                            !.exc = r.exc, !.tm = r.tm]
    /\ UNCHANGED <<variant, _handle, _header, _options, easy, slists, last,
                   setLog, onlySets, lastFields, calls, performs, added,
                   codec, process>>

NextStreamer == Call_get_streamer_info

SpecStreamer == InitStreamer /\ [][NextStreamer]_vars

----------------------------------------------------------------------------
(* Properties.                                                             *)

\* the operations that change the connection, close apart
Mutators == {"SET_url", "SET_ssl_verify", "SET_ssl_verify_using_ca_bundle",
             "SET_ssl_verify_using_ca_certs", "SET_encoding", "SET_keepalive",
             "ADD_headers", "SET_fields", "RESET_headers", "RESET_options",
             "execute"}

\* C1: in every reachable state the registry records exactly the options
\* applied to the native handle, each with the string form of the applied
\* value; in particular RESET_headers leaves the header-list option unset
\* on the handle as well as absent from the registry.
C1_RegistryMirrorsHandle ==
    /\ DOMAIN _options = DOMAIN easy
    /\ \A o \in DOMAIN _options : _options[o] = to_str(easy[o])

\* C2 as claimed: every mutating operation called on a closed connection
\* fails with the closed-connection error.
C2_ClosedRejectsEveryMutator ==
    (last.closed /\ last.op \in Mutators) => last.exc = CurlException

\* C2 as amended: on a closed connection RESET_headers and RESET_options
\* raise nothing, every other mutating operation fails with the
\* closed-connection error, and none of them changes the connection.
C2_ClosedRejectsSetters ==
    [][ (_handle = NULL /\ last'.op \in Mutators) =>
            /\ UNCHANGED conn
            /\ last'.exc = IF last'.op \in {"RESET_headers", "RESET_options"}
                           THEN NoExc ELSE CurlException ]_vars

C2_Witness ==
    /\ last.closed
    /\ last.op = "SET_fields"
    /\ last.exc = CurlException
    /\ \E i \in DOMAIN slists : slists[i].frees = 1

\* C3: close leaves the handle null, the header list null and released
\* exactly once, and the registry empty, and raises nothing; a close of a
\* closed connection releases nothing and changes nothing; no list is ever
\* released twice.
C3_CloseIdempotent ==
    [][ last'.op = "close" =>
            /\ last'.exc = NoExc
            /\ _handle' = NULL /\ _header' = NULL /\ _options' = EmptyMap
            /\ DOMAIN slists' = DOMAIN slists
            /\ \A i \in DOMAIN slists :
                  /\ slists'[i].data = slists[i].data
                  /\ slists'[i].frees = IF _header = ListBase + i
                                        THEN 1 ELSE slists[i].frees
                  /\ slists'[i].frees <= 1
            /\ (_handle = NULL => UNCHANGED conn) ]_vars

C3_Witness ==
    /\ last.op = "close"
    /\ last.closed
    /\ \E i \in DOMAIN slists : slists[i].frees = 1

\* C4 as claimed: the POST body the engine uses at execute is the wire
\* string of the most recent successful SET_fields, whatever was called in
\* between.
C4_BodyIsLatestFields ==
    (last.obs.performed /\ lastFields.set) =>
        last.obs.sent = << lastFields.wire >>

\* C4 as amended: the POST body the engine uses at execute is the wire
\* string of the most recent successful SET_fields made since construction
\* or the last RESET_options, and no body when there is none; the engine
\* reads its own copy, never the buffer SET_fields built.
C4_BodyIsLatestFieldsSinceReset ==
    last.obs.performed =>
        last.obs.sent = IF lastFields.set /\ ~lastFields.reset
                        THEN << lastFields.wire >> ELSE <<>>

C4_Witness ==
    /\ last.obs.performed
    /\ lastFields.set /\ ~lastFields.reset
    /\ last.obs.sent = << lastFields.wire >>
    /\ lastFields.age = 2

\* C5: after execute has returned or raised, nothing on the connection
\* refers to the response sink of that call: not the handle's
\* write-destination option, nor the registry.
C5_SinkNotRetained ==
    /\ \A o \in DOMAIN easy : easy[o] # Ptr(CbAddr)
    /\ "WRITEDATA" \notin DOMAIN _options

\* C6: execute on an open connection raises the request-execution error
\* exactly when curl_easy_perform returned a failure code, the error carries
\* that code and nothing is returned; when the perform succeeds a result is
\* returned for every status, the status passed through unchanged.
C6_ExecuteErrorIffPerformFails ==
    (last.op = "execute" /\ ~last.closed) =>
        /\ (last.exc.kind = "CurlConnectionError")
              <=> (last.obs.performed /\ last.in.ccode # CURLE_OK)
        /\ (last.exc.kind = "CurlConnectionError") =>
              (last.exc.code = last.in.ccode /\ ~last.ret.returned)
        /\ (last.obs.performed /\ last.in.ccode = CURLE_OK) =>
              /\ last.exc = NoExc
              /\ last.ret.returned
              /\ last.ret.status = last.in.status

C6_Witness ==
    /\ last.op = "execute"
    /\ last.ret.returned
    /\ last.ret.status = 404

RECURSIVE Concat(_)
Concat(ss) == IF ss = <<>> THEN <<>> ELSE ss[1] \o Concat(Tail(ss))

\* C7: the body a successful execute returns is the concatenation, in
\* delivery order, of the chunks delivered during that call and nothing
\* else, and the timestamp is not earlier than the start of the call.
C7_BodyIsThisCallsChunks ==
    last.ret.returned =>
        /\ last.ret.body = Concat(last.in.chunks)
        /\ last.ret.tp >= last.in.t0

C7_Witness ==
    /\ last.ret.returned
    /\ performs = 2
    /\ Len(last.in.chunks) = 2
    /\ last.ret.body = <<"O", "K">>

\* C8: after a sequence of successful setter calls on an open connection
\* the registry holds one entry per option set, with the string form of the
\* value given by the most recent call for it.
C8_LastWriteWins ==
    onlySets => _options = setLog

C8_Witness ==
    /\ onlySets
    /\ variant = "Post"
    /\ calls = 3
    /\ "COPYPOSTFIELDS" \in DOMAIN _options
    /\ "HTTPHEADER" \in DOMAIN _options
    /\ _options["ACCEPT_ENCODING"] = <<"b", "r">>

Setters == Mutators \ {"RESET_headers", "RESET_options", "execute"}

\* C9 as claimed: a setter that raises the malformed-option error leaves
\* the registry as it was before the call.
C9_FailedSetterKeepsRegistry ==
    [][ (last'.op \in Setters /\ last'.exc.kind = "CurlOptionException") =>
            _options' = _options ]_vars

\* C9 as amended: a setter that raises the malformed-option error leaves
\* the registry entry of the option whose apply failed as it was; ADD_headers
\* and the single-option setters leave the whole registry as it was; the
\* composite SET_ssl_verify setters keep the verify-peer and verify-host
\* entries recorded by the steps that succeeded before the failing one.
C9_FailedSetterKeepsFailedEntry ==
    [][ (last'.op \in Setters /\ last'.exc.kind = "CurlOptionException") =>
          LET changed == { o \in (DOMAIN _options) \cup (DOMAIN _options') :
                             \/ o \notin DOMAIN _options
                             \/ o \notin DOMAIN _options'
                             \/ _options[o] # _options'[o] }
          IN  /\ last'.exc.option \notin changed
              /\ DOMAIN _options \subseteq DOMAIN _options'
              /\ changed # {} =>
                    /\ last'.op \in {"SET_ssl_verify",
                                     "SET_ssl_verify_using_ca_bundle",
                                     "SET_ssl_verify_using_ca_certs"}
                    /\ \A o \in changed :
                          /\ o \in {"SSL_VERIFYPEER", "SSL_VERIFYHOST"}
                          /\ _options'[o] = SslUpd[o] ]_vars

C9_Witness ==
    /\ last.op = "SET_ssl_verify_using_ca_bundle"
    /\ last.exc.kind = "CurlOptionException"
    /\ last.exc.option = "CAINFO"
    /\ "NOSIGNAL" \notin DOMAIN _options
    /\ "SSL_VERIFYHOST" \in DOMAIN _options

\* C10: after RESET_options on an open connection the registry is empty, no
\* header list is owned, and the options applied to the handle are those of
\* a newly constructed base connection, the no-signal option included.
C10_ResetEqualsFresh ==
    (last.op = "RESET_options" /\ ~last.closed) =>
        /\ _options = EmptyMap
        /\ _header = NULL
        /\ easy = CurlConnection(<<>>).easy

\* the lines ADD_headers builds for a list of pairs
HeaderLines(pairs) == [n \in DOMAIN pairs |-> HeaderLine(pairs[n])]

\* C11: while every ADD_headers call since construction or the last
\* RESET_headers / RESET_options succeeded, the owned header list has one
\* node per pair given, in call order and in input order within a call, and
\* header_list_to_map decodes the list to the very pairs that were given.
C11_HeadersRoundTrip ==
    added.ok =>
        /\ slist_nodes(slists, _header) = HeaderLines(added.pairs)
        /\ \A junk \in Garbage :
              header_list_to_map(slist_nodes(slists, _header), junk)
                  = added.pairs

\* key1=value1&key2=value2&... for a non-empty list of pairs
RECURSIVE JoinedFields(_)
JoinedFields(fields) ==
    LET kv == fields[1][1] \o <<"=">> \o fields[1][2]
    IN  IF Len(fields) = 1 THEN kv
        ELSE kv \o <<"&">> \o JoinedFields(Tail(fields))

Has(s, ch) == \E n \in DOMAIN s : s[n] = ch

\* no key holds '=' or '&' and no value holds '&'
PlainFields(fields) ==
    \A n \in DOMAIN fields :
        /\ ~Has(fields[n][1], "=")
        /\ ~Has(fields[n][1], "&")
        /\ ~Has(fields[n][2], "&")

\* what SET_fields installed, on the handle and in the registry, is the
\* pairs joined in input order
WireInstalled ==
    /\ _options["COPYPOSTFIELDS"] = JoinedFields(codec.fields)
    /\ easy["COPYPOSTFIELDS"] = CStr(JoinedFields(codec.fields))

\* C12 as claimed: for every non-empty list of pairs SET_fields installs
\* key1=value1&key2=value2&... in input order with no trailing separator,
\* and fields_str_to_map decodes that string to the list that was passed.
C12_FieldsRoundTrip ==
    codec.stage = "decoded" =>
        /\ WireInstalled
        /\ codec.decoded = codec.fields

\* C12 as amended: SET_fields installs the pairs joined in input order for
\* every non-empty list, and fields_str_to_map decodes that string to the
\* list that was passed exactly when no key holds '=' or '&' and no value
\* holds '&'.
C12_PlainFieldsRoundTrip ==
    codec.stage = "decoded" =>
        /\ WireInstalled
        /\ (codec.decoded = codec.fields) <=> PlainFields(codec.fields)

C12_Witness ==
    /\ codec.stage = "decoded"
    /\ codec.fields = << << <<"a">>, <<"=">> >>, << <<>>, <<"1">> >> >>
    /\ _options["COPYPOSTFIELDS"] = <<"a", "=", "=", "&", "=", "1">>
    /\ codec.decoded = codec.fields

\* C13: on an open connection ADD_headers with an empty list and
\* SET_fields with an empty list raise nothing and leave the registry, the
\* header list, the heap of lists and the options applied to the handle as
\* they were, so a POST body or a header list installed before stays.
C13_EmptyListsAreNoOps ==
    [][ (last'.op \in {"ADD_headers", "SET_fields"} /\ last'.empty
           /\ _handle # NULL) =>
            /\ last'.exc = NoExc
            /\ UNCHANGED conn ]_vars

C13_Witness ==
    /\ last.op = "ADD_headers"
    /\ last.empty
    /\ ~last.closed
    /\ last.exc = NoExc
    /\ _header # NULL
    /\ "HTTPHEADER" \in DOMAIN easy
    /\ "COPYPOSTFIELDS" \in DOMAIN easy

\* the registry each class documents for a new connection
BaseProfile == One("NOSIGNAL", <<"1">>)
SecureProfile ==
    [o \in {"NOSIGNAL", "SSL_VERIFYPEER", "SSL_VERIFYHOST"} |->
        IF o = "SSL_VERIFYHOST" THEN <<"2">> ELSE <<"1">>]
MethodProfile(method) ==
    [o \in {"NOSIGNAL", "SSL_VERIFYPEER", "SSL_VERIFYHOST", method,
            "ACCEPT_ENCODING", "TCP_KEEPALIVE"} |->
        CASE o = "SSL_VERIFYHOST"  -> <<"2">>
          [] o = "ACCEPT_ENCODING" -> <<"g", "z", "i", "p">>
          [] OTHER                 -> <<"1">>]
Profile(v) ==
    CASE v = "Base"   -> BaseProfile
      [] v = "Secure" -> SecureProfile
      [] v = "Get"    -> MethodProfile("HTTPGET")
      [] v = "Post"   -> MethodProfile("POST")

\* C14: a new connection's registry is the profile of its class, plus the
\* URL entry alone when it was constructed with an address; a successful
\* SET_url as the first call gives the registry that construction with
\* that address gives.
C14_ConstructorProfiles ==
    /\ calls = 0 =>
          \/ _options = Profile(variant)
          \/ \E u \in Urls : _options = Put(Profile(variant), "URL", u)
    /\ (calls = 1 /\ last.op = "SET_url" /\ last.exc = NoExc) =>
          \E u \in Urls :
              /\ _options = Construct(variant, <<u>>)._options
              /\ _options = Put(Profile(variant), "URL", u)

C14_Witness ==
    /\ calls = 1
    /\ last.op = "SET_url"
    /\ last.exc = NoExc
    /\ variant = "Get"
    /\ "URL" \in DOMAIN _options
    /\ Cardinality(DOMAIN _options) = 7
    /\ _options["TCP_KEEPALIVE"] = <<"1">>

\* C15: the transport runtime is initialized once and torn down once, and
\* no connection acquires its handle or performs a request while the runtime
\* is uninitialized or torn down, connections with static storage duration
\* included; once every static object is destroyed the runtime has been
\* torn down exactly once.
C15_RuntimeCoversEveryConnection ==
    /\ process.inits <= 1
    /\ process.cleanups <= 1
    /\ process.event.kind \in {"acquire", "perform"} =>
          process.event.runtime = "initialized"
    /\ (process.stage = "static_destruction" /\ process.order = <<>>) =>
          (process.inits = 1 /\ process.cleanups = 1)

\* member k of the object v is a string
HasString(v, k) ==
    v.t = "object" /\ k \in DOMAIN v.o /\ v.o[k].t = "string"

\* YYYY-MM-DDTHH:MM:SS+0000
WellFormedTimestamp(ts) ==
    /\ Len(ts) = 24
    /\ \A n \in {1, 2, 3, 4, 6, 7, 9, 10, 12, 13, 15, 16, 18, 19} :
          ts[n] \in Digits
    /\ ts[5] = "-" /\ ts[8] = "-" /\ ts[11] = "T"
    /\ ts[14] = ":" /\ ts[17] = ":"
    /\ SubSeq(ts, 20, 24) = <<"+", "0", "0", "0", "0">>

\* every field get_streamer_info reads is there and of the right form
WellFormedPrincipals(j) ==
    /\ j.t = "object"
    /\ "accounts" \in DOMAIN j.o
    /\ j.o["accounts"].t = "array"
    /\ j.o["accounts"].a # <<>>
    /\ \A k \in AcctKeys : HasString(j.o["accounts"].a[1], k)
    /\ "streamerInfo" \in DOMAIN j.o
    /\ \A k \in SInfoKeys : HasString(j.o["streamerInfo"], k)
    /\ WellFormedTimestamp(j.o["streamerInfo"].o["tokenTimestamp"].s)
    /\ HasString(j, "primaryAccountId")

\* C16: for every principals document with a missing or malformed field
\* get_streamer_info raises APIException and no other kind of error:
\* accounts or streamerInfo absent, accounts empty or not an array, a
\* required member absent or of the wrong type, a tokenTimestamp that is
\* not a well-formed 24-character timestamp with a +0000 offset.
C16_MalformedRaisesAPIException ==
    (principals.stage = "done" /\ ~WellFormedPrincipals(principals.j)) =>
        principals.exc = "APIException"

\* the list at address a was allocated and never released
LiveList(a) ==
    /\ a # NULL
    /\ (a - ListBase) \in DOMAIN slists
    /\ slists[a - ListBase].frees = 0

\* C17: whenever execute performs the request, the header list the handle
\* refers to, if any, is a live list that the connection still owns.
C17_HeaderListLiveAtExecute ==
    (last.obs.performed /\ "HTTPHEADER" \in DOMAIN easy) =>
        /\ LiveList(easy["HTTPHEADER"].n)
        /\ easy["HTTPHEADER"].n = _header

\* C18: the registry has a header-list entry exactly when the connection
\* owns a list with at least one node, and every list that was allocated
\* and not released is the one the connection owns, also after an
\* ADD_headers that failed part-way.
C18_RegistryEntryIffOwnedList ==
    /\ ("HTTPHEADER" \in DOMAIN _options)
          <=> (_header # NULL /\ slist_nodes(slists, _header) # <<>>)
    /\ \A i \in DOMAIN slists :
          slists[i].frees = 0 => _header = ListBase + i

====
